---- MODULE Spec2Model ----
(***************************************************************************)
(* MARCO: enumeration of the minimal unsatisfiable subsets (MUSes) and the *)
(* maximal satisfiable subsets (MSSes) of a constraint set.                *)
(*                                                                         *)
(* Three state machines share this module:                                 *)
(*   Spec     one run of MarcoPolo.enumerate (src/MarcoPolo.py) over the   *)
(*            Map and Subset oracles;                                      *)
(*   SpecHub  the hub loop of main (src/marco.py) with its workers;        *)
(*   SpecZ3   single calls of Z3SubsetSolver.grow and shrink.              *)
(***************************************************************************)
EXTENDS Integers, Sequences, FiniteSets, TLC

\* Largest number of constraints of an instance.
MaxN == 3

\* Largest number of constraints of an instance enumerated by the workers
\* of the hub.
MaxHubN == 1

\* Number of worker processes started by the hub (main starts one per entry
\* of args_list).
NumWorkers == 2

\* Largest value of the output limit.
MaxLimit == 2

\* Peer results a worker receives during one enumeration.
MaxReceived == 2

\* A seed that may be missing: <<>> is Python's None, <<S>> the subset S.
None == <<>>

VARIABLES
    n,                \* MarcoPolo.n: number of constraints
    muses,            \* the instance: its minimal unsatisfiable subsets
    config,           \* MarcoPolo.config
    unexplored,       \* the Map: the subsets that are models of F_map
    queue,            \* SeedManager.queue
    got_top,          \* MarcoPolo.got_top
    singleton_MCSes,  \* MarcoPolo.singleton_MCSes
    pc,               \* position of the generator enumerate
    seed,             \* local of enumerate
    known_max,        \* local of enumerate
    seed_is_sat,      \* local of enumerate
    out,              \* the results yielded so far, in order
    unsat_seen,       \* some check_subset call of the run has returned UNSAT
    limit,            \* args.limit
    timeout,          \* args.timeout is set
    hubpc,            \* position of main
    exitcode,         \* the exit status of main, once it has exited
    exitwhy,          \* the statement that ended main
    pipes,            \* main: pipes, the channels still listened to
    ready,            \* main: the receivers of the current select still to serve
    results,          \* main: results, the subsets seen so far
    remaining,        \* main: remaining
    printed,          \* the results handed to print_result, in order
    origin,           \* the worker each printed result was received from
    filtered,         \* number of duplicates dropped by the hub
    toHub,            \* per worker: messages sent to the hub, not yet received
    toWorker,         \* per worker: messages sent by the hub, not yet received
    wpc,              \* per worker: position of the worker process
    wkind,            \* per worker: complete enumerator or partial one
    wmap,             \* per worker: its Map
    eof,              \* per worker: the hub's end of the channel is at end of file
    injected,         \* the peer results enumerate has blocked in its Map
    from_queue        \* the seed in hand was taken from SeedManager.queue

evars == <<n, muses, config, unexplored, queue, got_top, singleton_MCSes,
           pc, seed, known_max, seed_is_sat, out, unsat_seen>>

hvars == <<limit, timeout, hubpc, exitcode, exitwhy, pipes, ready, results, remaining,
           printed, origin, filtered, toHub, toWorker, wpc, wkind, wmap, eof>>

pvars == <<injected, from_queue>>

vars == <<evars, hvars, pvars>>

\* An enumerator that has received nothing from a peer.
PeerOff ==
    /\ injected = {}
    /\ from_queue = FALSE

----------------------------------------------------------------------------
(* The constraint set, seen through satisfiability of its subsets.         *)

Idx(k) == 0 .. (k - 1)

\* Every instance over k constraints: satisfiability of subsets is monotone,
\* so an instance is given by the antichain of its MUSes (the empty subset
\* is always satisfiable).
Instances(k) ==
    {A \in SUBSET (SUBSET Idx(k) \ {{}}) :
        \A X \in A : \A Y \in A : X \subseteq Y => X = Y}

IsSat(S) == \A U \in muses : ~(U \subseteq S)

IsMUS(S) == ~IsSat(S) /\ \A i \in S : IsSat(S \ {i})

IsMSS(S) == IsSat(S) /\ \A j \in Idx(n) \ S : ~IsSat(S \cup {j})

AllMUSes == {S \in SUBSET Idx(n) : IsMUS(S)}

AllMSSes == {S \in SUBSET Idx(n) : IsMSS(S)}

----------------------------------------------------------------------------
(* Subset solver.                                                          *)

complement(aset) == Idx(n) \ aset

\* check_subset(seed, improve_seed=True): the verdict and the improved
\* seed, a satisfiable extension or an unsatisfiable core of the seed.
check_subset(S) ==
    IF IsSat(S)
    THEN {<<TRUE, T>> : T \in {T \in SUBSET Idx(n) : S \subseteq T /\ IsSat(T)}}
    ELSE {<<FALSE, T>> : T \in {T \in SUBSET S : ~IsSat(T)}}

\* A pass that probes every element against the seed it started from.
growPass_probes_against_seed(current, todo) ==
    {current \cup {i \in todo : IsSat(current \cup {i})}}

\* One pass of single-element probes over todo, in any order.
RECURSIVE growPass(_, _)
growPass(current, todo) ==
    IF todo = {} THEN {current}
    ELSE UNION {growPass(IF IsSat(current \cup {i}) THEN current \cup {i}
                                                     ELSE current,
                         todo \ {i}) : i \in todo}

\* A grow that starts from nothing instead of the seed.
grow_ignores_seed(S) == growPass({}, Idx(n))

grow(S) == growPass(S, complement(S))

RECURSIVE shrinkPass(_, _)
shrinkPass(current, todo) ==
    IF todo = {} THEN {current}
    ELSE UNION {shrinkPass(IF ~IsSat(current \ {i}) THEN current \ {i}
                                                    ELSE current,
                           todo \ {i}) : i \in todo}

\* Z3SubsetSolver.shrink(seed): every element of the seed is probed.
Z3shrink(S) == shrinkPass(S, S)

\* shrink(seed, hard): the elements of hard are never probed.
shrink(S, hard) == shrinkPass(S, S \ hard)

----------------------------------------------------------------------------
(* Map solver.                                                             *)

Maximal(F) == {S \in F : \A T \in F : S \subseteq T => S = T}

Minimal(F) == {S \in F : \A T \in F : T \subseteq S => S = T}

\* A Map with a polarity bias (maximize = 'solver') returns maximal models
\* when aiming high and minimal models when aiming low.
next_seed(F) ==
    IF config.maximize = "solver"
    THEN (IF config.aim = "MUSes" THEN Maximal(F) ELSE Minimal(F))
    ELSE F

maximize_seed(F, S, direction) ==
    LET above == {T \in Maximal(F) : S \subseteq T}
        below == {T \in Minimal(F) : T \subseteq S}
        found == IF direction THEN above ELSE below
    IN  IF found = {} THEN {S} ELSE found

find_above(F, S) == {T \in F : S \subseteq T /\ T # S}

block_down(F, M) == {S \in F : ~(S \subseteq M)}

block_up(F, U) == {S \in F : ~(U \subseteq S)}

block_above_size(F, k) == {S \in F : Cardinality(S) <= k}

----------------------------------------------------------------------------
(* Configurations.                                                         *)

\* The configurations enumerate reads. setup_config: --smus forces
\* maximize = 'always' (it excludes --nomax, -m and -M).
Configs ==
    {c \in [maximize : {"none", "solver", "always", "half"},
            aim : {"MUSes", "MCSes"},
            mssguided : BOOLEAN,
            use_singletons : BOOLEAN,
            smus : BOOLEAN] :
        c.smus => c.maximize = "always"}

aim_high == config.aim = "MUSes"

----------------------------------------------------------------------------
(* MarcoPolo.enumerate                                                     *)

EnumInit ==
    /\ n \in 0 .. MaxN
    /\ muses \in Instances(n)
    /\ config \in Configs
    /\ unexplored = SUBSET Idx(n)
    /\ queue = <<>>
    /\ got_top = FALSE
    /\ singleton_MCSes = {}
    /\ pc = "next"
    /\ seed = {}
    /\ known_max = FALSE
    /\ seed_is_sat = FALSE
    /\ out = <<>>
    /\ unsat_seen = FALSE

\* SeedManager.seed_from_solver
seed_from_solver ==
    IF unexplored = {} THEN {<<None, config.maximize = "solver">>}
    ELSE {<<<<s>>, config.maximize = "solver">> : s \in next_seed(unexplored)}

\* "if not seed": the empty seed taken for the end of the sequence.
seed_is_None_or_empty(s) == s = None \/ s = <<{}>>

\* "if seed is None" of SeedManager.__next__.
seed_is_None(s) == s = None

\* SeedManager.__next__: the front of the queue, else a seed of the Map;
\* StopIteration ends the generator.
Pull ==
    /\ pc = "next"
    /\ from_queue' = (queue # <<>>)
    /\ IF queue # <<>>
       THEN /\ seed' = Head(queue)[1]
            /\ known_max' = Head(queue)[2]
            /\ queue' = Tail(queue)
            /\ pc' = "maximize"
       ELSE \E p \in seed_from_solver :
               /\ IF seed_is_None(p[1])
                  THEN pc' = "done" /\ UNCHANGED <<seed, known_max>>
                  ELSE pc' = "maximize" /\ seed' = p[1][1] /\ known_max' = p[2]
               /\ UNCHANGED queue
    /\ UNCHANGED <<n, muses, config, unsat_seen, unexplored, got_top, singleton_MCSes,
                   seed_is_sat, out>>
    /\ UNCHANGED <<hvars, injected>>

\* record_delta(name, oldlen, newlen) divides by self.n: with no constraint
\* it raises ZeroDivisionError, which ends the generator. It is called
\* after every maximize_seed, check_subset, grow and shrink, so that only
\* its first call of a run can raise.
record_delta_raises == n = 0

\* maximize = 'always': maximize every seed within the Map.
MaximizeAlways ==
    /\ pc = "maximize"
    /\ IF config.maximize = "always"
       THEN IF known_max
            THEN pc' = "failed" /\ UNCHANGED seed
            ELSE /\ seed' \in maximize_seed(unexplored, seed, aim_high)
                 /\ pc' = IF record_delta_raises THEN "raised" ELSE "checkA"
       ELSE pc' = "checkA" /\ UNCHANGED seed
    /\ UNCHANGED <<n, muses, config, unsat_seen, unexplored, queue, got_top,
                   singleton_MCSes, known_max, seed_is_sat, out>>
    /\ UNCHANGED <<hvars, pvars>>

\* known_max = (known_max and (seed_is_sat == self.aim_high))
known_max_after_check(flag, sat) == flag /\ (sat = aim_high)

\* The first check_subset of the iteration.
CheckA ==
    /\ pc = "checkA"
    /\ \E r \in check_subset(seed) :
          /\ seed_is_sat' = r[1]
          /\ unsat_seen' = (unsat_seen \/ ~r[1])
          /\ seed' = r[2]
          /\ IF record_delta_raises
             THEN pc' = "raised" /\ UNCHANGED known_max
             ELSE /\ known_max' = known_max_after_check(known_max, r[1])
                  /\ pc' = IF config.maximize = "half" /\ r[1] = aim_high
                           THEN "half" ELSE "emit"
    /\ UNCHANGED <<n, muses, config, unexplored, queue, got_top,
                   singleton_MCSes, out>>
    /\ UNCHANGED <<hvars, pvars>>

\* maximize = 'half': maximize within the Map, re-check when it changed.
HalfMaximize ==
    /\ pc = "half"
    /\ IF known_max
       THEN pc' = "failed" /\ UNCHANGED <<seed, known_max>>
       ELSE \E s \in maximize_seed(unexplored, seed, aim_high) :
               /\ seed' = s
               /\ known_max' = TRUE
               /\ pc' = IF Cardinality(s) # Cardinality(seed)
                        THEN "checkB" ELSE "emit"
    /\ UNCHANGED <<n, muses, config, unsat_seen, unexplored, queue, got_top,
                   singleton_MCSes, seed_is_sat, out>>
    /\ UNCHANGED <<hvars, pvars>>

\* known_max = (len(seed) == oldlen), after the second check_subset.
known_max_after_recheck(oldseed, newseed, sat) ==
    Cardinality(newseed) = Cardinality(oldseed)

CheckB ==
    /\ pc = "checkB"
    /\ \E r \in check_subset(seed) :
          /\ seed_is_sat' = r[1]
          /\ unsat_seen' = (unsat_seen \/ ~r[1])
          /\ seed' = r[2]
          /\ known_max' = known_max_after_recheck(seed, r[2], r[1])
          /\ pc' = "emit"
    /\ UNCHANGED <<n, muses, config, unexplored, queue, got_top,
                   singleton_MCSes, out>>
    /\ UNCHANGED <<hvars, pvars>>

\* yield ("S", MSS); the local MSS is kept in seed (grow works in place).
YieldS ==
    /\ pc = "emit"
    /\ seed_is_sat
    /\ \E MSS \in (IF known_max THEN {seed} ELSE grow(seed)) :
          /\ seed' = MSS
          /\ out' = Append(out, <<"S", MSS>>)
    /\ pc' = "yieldS"
    /\ UNCHANGED <<n, muses, config, unsat_seen, unexplored, queue, got_top,
                   singleton_MCSes, known_max, seed_is_sat>>
    /\ UNCHANGED <<hvars, pvars>>

\* yield ("U", MUS); the local MUS is kept in seed.
YieldU ==
    /\ pc = "emit"
    /\ ~seed_is_sat
    /\ got_top' = TRUE
    /\ \E MUS \in (IF known_max THEN {seed}
                                ELSE shrink(seed, singleton_MCSes)) :
          /\ seed' = MUS
          /\ out' = Append(out, <<"U", MUS>>)
    /\ pc' = "yieldU"
    /\ UNCHANGED <<n, muses, config, unsat_seen, unexplored, queue,
                   singleton_MCSes, known_max, seed_is_sat>>
    /\ UNCHANGED <<hvars, pvars>>

blocks_after_S_skipped(F, MSS) == F

blocks_after_S_seed_only(F, MSS) == F \ {MSS}

blocks_after_S_wrong_way(F, MSS) == block_up(F, MSS)

\* self.map.block_down(MSS)
blocks_after_S(F, MSS) == block_down(F, MSS)

singletons_after_adds_members(H, MSS) ==
    IF config.use_singletons /\ Cardinality(MSS) = n - 1
    THEN H \cup MSS
    ELSE H

singletons_after_any_size(H, MSS) ==
    IF config.use_singletons THEN H \cup complement(MSS) ELSE H

\* if len(MSS) == self.n - 1: self.singleton_MCSes.add(singleton)
singletons_after(H, MSS) ==
    IF config.use_singletons /\ Cardinality(MSS) = n - 1
    THEN H \cup complement(MSS)
    ELSE H

check_parents_only_without_top(MSS) == ~got_top

\* if len(MSS) < self.n - 1 or not self.got_top
check_parents(MSS) == Cardinality(MSS) < n - 1 \/ ~got_top

\* The generator is resumed after yield ("S", MSS).
ResumeS ==
    /\ pc = "yieldS"
    /\ LET MSS == seed
           F == blocks_after_S(unexplored, MSS)
       IN  /\ unexplored' = F
           /\ singleton_MCSes' = singletons_after(singleton_MCSes, MSS)
           /\ IF config.mssguided /\ check_parents(MSS)
                 /\ find_above(F, MSS) # {}
              THEN \E newseed \in find_above(F, MSS) :
                      queue' = Append(queue, <<newseed, FALSE>>)
              ELSE UNCHANGED queue
    /\ pc' = "next"
    /\ UNCHANGED <<n, muses, config, unsat_seen, got_top, seed, known_max, seed_is_sat,
                   out>>
    /\ UNCHANGED <<hvars, pvars>>

blocks_after_U_size_kept(F, MUS) ==
    IF config.smus
    THEN block_above_size(block_down(block_up(F, MUS), MUS), Cardinality(MUS))
    ELSE block_up(F, MUS)

blocks_after_U_seed_only(F, MUS) ==
    IF config.smus
    THEN block_above_size(block_down(F \ {MUS}, MUS), Cardinality(MUS) - 1)
    ELSE F \ {MUS}

blocks_after_U_wrong_way(F, MUS) ==
    IF config.smus
    THEN block_above_size(block_up(block_down(F, MUS), MUS),
                          Cardinality(MUS) - 1)
    ELSE block_down(F, MUS)

blocks_after_U_size_off_by_one(F, MUS) ==
    IF config.smus
    THEN block_above_size(block_down(block_up(F, MUS), MUS),
                          Cardinality(MUS) - 2)
    ELSE block_up(F, MUS)

\* self.map.block_up(MUS), and in SMUS mode block_down(MUS) and
\* block_above_size(len(MUS) - 1).
blocks_after_U(F, MUS) ==
    IF config.smus
    THEN block_above_size(block_down(block_up(F, MUS), MUS),
                          Cardinality(MUS) - 1)
    ELSE block_up(F, MUS)

\* The generator is resumed after yield ("U", MUS).
ResumeU ==
    /\ pc = "yieldU"
    /\ unexplored' = blocks_after_U(unexplored, seed)
    /\ pc' = "next"
    /\ UNCHANGED <<n, muses, config, unsat_seen, queue, got_top, singleton_MCSes, seed,
                   known_max, seed_is_sat, out>>
    /\ UNCHANGED <<hvars, pvars>>

EnumNext ==
    \/ Pull
    \/ MaximizeAlways
    \/ CheckA
    \/ HalfMaximize
    \/ CheckB
    \/ YieldS
    \/ YieldU
    \/ ResumeS
    \/ ResumeU

----------------------------------------------------------------------------
(* The hub: main of marco.py, and its worker processes.                    *)

Workers == 1 .. NumWorkers

Min(S) == CHOOSE x \in S : \A y \in S : x <= y

\* Messages: a result ("S", M) or ("U", U), or a control word.
Msg(word) == <<word, {}>>

IsResult(m) == m[1] \in {"S", "U"}

\* The hub is not running: the state of a lone MarcoPolo.enumerate.
HubOff ==
    /\ limit = None
    /\ timeout = FALSE
    /\ hubpc = "off"
    /\ exitcode = -1
    /\ exitwhy = ""
    /\ pipes = {}
    /\ ready = {}
    /\ results = {}
    /\ remaining = None
    /\ printed = <<>>
    /\ origin = <<>>
    /\ filtered = 0
    /\ toHub = [w \in Workers |-> <<>>]
    /\ toWorker = [w \in Workers |-> <<>>]
    /\ wpc = [w \in Workers |-> "off"]
    /\ wkind = [w \in Workers |-> "full"]
    /\ wmap = [w \in Workers |-> {}]
    /\ eof = [w \in Workers |-> FALSE]

\* main, up to the start of the workers: one channel and one process each.
HubInit ==
    /\ PeerOff
    /\ n \in 0 .. MaxHubN
    /\ muses \in Instances(n)
    /\ config = [maximize |-> "none", aim |-> "MUSes", mssguided |-> FALSE,
                 use_singletons |-> FALSE, smus |-> FALSE]
    /\ unexplored = {}
    /\ queue = <<>>
    /\ got_top = FALSE
    /\ singleton_MCSes = {}
    /\ pc = "off"
    /\ seed = {}
    /\ known_max = FALSE
    /\ seed_is_sat = FALSE
    /\ out = <<>>
    /\ unsat_seen = FALSE
    /\ limit \in {None} \cup {<<k>> : k \in 0 .. MaxLimit}
    /\ timeout \in BOOLEAN
    /\ hubpc = "start"
    /\ exitcode = -1
    /\ exitwhy = ""
    /\ pipes = Workers
    /\ ready = {}
    /\ results = {}
    /\ remaining = None
    /\ printed = <<>>
    /\ origin = <<>>
    /\ filtered = 0
    /\ toHub = [w \in Workers |-> <<>>]
    /\ toWorker = [w \in Workers |-> <<>>]
    /\ wpc = [w \in Workers |-> "run"]
    /\ wkind \in [Workers -> {"full", "partial"}]
    /\ wmap = [w \in Workers |-> SUBSET Idx(n)]
    /\ eof = [w \in Workers |-> FALSE]

\* sys.exit(code)
HubExit(code, why) ==
    /\ hubpc' = "exit"
    /\ exitcode' = code
    /\ exitwhy' = why

\* The signals setup_execution registers the handler for; the alarm only
\* when a timeout is set.
Signals == {"SIGTERM", "SIGINT"} \cup (IF timeout THEN {"SIGALRM"} ELSE {})

handler_status_of_error(signum) ==
    <<1, IF signum = "SIGALRM" THEN "Time limit reached." ELSE "Interrupted.">>

\* handler(signum, frame): the line written to stderr and sys.exit(128).
handler(signum) ==
    <<128, IF signum = "SIGALRM" THEN "Time limit reached." ELSE "Interrupted.">>

\* A registered signal is delivered while main runs: the handler raises
\* SystemExit wherever main is.
HubSignal(signum) ==
    /\ hubpc \notin {"off", "exit"}
    /\ signum \in Signals
    /\ HubExit(handler(signum)[1], signum)
    /\ UNCHANGED <<limit, timeout, eof, pipes, ready, results, remaining,
                   printed, origin, filtered, toHub, toWorker, wpc, wkind,
                   wmap>>
    /\ UNCHANGED <<evars, pvars>>

\* multiprocessing.active_children()
active_children == {w \in Workers : wpc[w] \notin {"exited", "crashed"}}

\* if args.limit == 0: sys.exit(0); results = set(); remaining = args.limit
HubStart ==
    /\ hubpc = "start"
    /\ IF limit = <<0>>
       THEN HubExit(0, "limit") /\ UNCHANGED remaining
       ELSE /\ hubpc' = "test"
            /\ remaining' = limit
            /\ UNCHANGED <<exitcode, exitwhy>>
    /\ UNCHANGED <<limit, timeout, eof, pipes, ready, results, printed, origin, filtered, toHub,
                   toWorker, wpc, wkind, wmap>>
    /\ UNCHANGED <<evars, pvars>>

\* while multiprocessing.active_children(): falling off the loop ends main.
HubTest ==
    /\ hubpc = "test"
    /\ IF active_children # {}
       THEN hubpc' = "select" /\ UNCHANGED <<exitcode, exitwhy>>
       ELSE HubExit(0, "alldone")
    /\ UNCHANGED <<limit, timeout, eof, pipes, ready, results, remaining, printed, origin, filtered,
                   toHub, toWorker, wpc, wkind, wmap>>
    /\ UNCHANGED <<evars, pvars>>

\* select.select(pipes, [], []): blocks until a listened channel is readable.
readable == {w \in pipes : toHub[w] # <<>> \/ eof[w]}

HubSelect ==
    /\ hubpc = "select"
    /\ readable # {}
    /\ ready' = readable
    /\ hubpc' = "recv"
    /\ UNCHANGED <<limit, timeout, eof, exitcode, exitwhy, pipes, results, remaining,
                   printed, origin, filtered, toHub, toWorker, wpc, wkind, wmap>>
    /\ UNCHANGED <<evars, pvars>>

\* for receiver in ready: the receivers are served in the order of pipes.
receiver == Min(ready)

\* receiver.poll() is false: on to the next receiver, or back to the test.
HubNextReceiver ==
    /\ hubpc = "recv"
    /\ IF ready = {}
       THEN hubpc' = "test" /\ UNCHANGED ready
       ELSE /\ toHub[receiver] = <<>>
            /\ ~eof[receiver]
            /\ ready' = ready \ {receiver}
            /\ UNCHANGED hubpc
    /\ UNCHANGED <<limit, timeout, eof, exitcode, exitwhy, pipes, results, remaining,
                   printed, origin, filtered, toHub, toWorker, wpc, wkind, wmap>>
    /\ UNCHANGED <<evars, pvars>>

\* result = receiver.recv() on a channel that is drained and whose other
\* end is closed raises EOFError; nothing catches it and main ends with
\* status 1.
HubEOF ==
    /\ hubpc = "recv"
    /\ ready # {}
    /\ toHub[receiver] = <<>>
    /\ eof[receiver]
    /\ HubExit(1, "EOFError")
    /\ UNCHANGED <<limit, timeout, eof, pipes, ready, results, remaining, printed,
                   origin, filtered, toHub, toWorker, wpc, wkind, wmap>>
    /\ UNCHANGED <<evars, pvars>>

\* result[0] == 'done': acknowledge and stop listening to the channel.
HubDone ==
    /\ hubpc = "recv"
    /\ ready # {}
    /\ toHub[receiver] # <<>>
    /\ Head(toHub[receiver]) = Msg("done")
    /\ toHub' = [toHub EXCEPT ![receiver] = Tail(@)]
    /\ toWorker' = [toWorker EXCEPT ![receiver] = Append(@, Msg("okay"))]
    /\ pipes' = pipes \ {receiver}
    /\ UNCHANGED <<limit, timeout, eof, hubpc, exitcode, exitwhy, ready, results, remaining,
                   printed, origin, filtered, wpc, wkind, wmap>>
    /\ UNCHANGED <<evars, pvars>>

\* result[0] == 'complete': sys.exit(0)
HubComplete ==
    /\ hubpc = "recv"
    /\ ready # {}
    /\ toHub[receiver] # <<>>
    /\ Head(toHub[receiver]) = Msg("complete")
    /\ toHub' = [toHub EXCEPT ![receiver] = Tail(@)]
    /\ HubExit(0, "complete")
    /\ UNCHANGED <<limit, timeout, eof, pipes, ready, results, remaining, printed, origin, filtered,
                   toWorker, wpc, wkind, wmap>>
    /\ UNCHANGED <<evars, pvars>>

is_new_without_lookup(seen, res_set) == TRUE

\* if res_set in results: continue
is_new(seen, res_set) == res_set \notin seen

print_result_only_when_limited(log, result, left) ==
    IF left # None THEN Append(log, result) ELSE log

\* print_result(result, args, stats)
print_result(log, result, left) == Append(log, result)

remaining_after_decrement_on_receipt(left, fresh) ==
    IF left # None /\ left[1] # 0 THEN <<left[1] - 1>> ELSE left

\* if remaining: remaining -= 1, for a result that is new.
remaining_after(left, fresh) ==
    IF fresh /\ left # None /\ left[1] # 0 THEN <<left[1] - 1>> ELSE left

\* for other in pipes: if other != receiver: other.send(result)
forwarded(chans, from, result) ==
    [w \in Workers |->
        IF w \in pipes /\ w # from THEN Append(chans[w], result) ELSE chans[w]]

\* The channels other.send(result) fails on: their other end is closed.
broken(from) == {w \in pipes \ {from} : eof[w]}

\* The sends done before the first one that raises.
forwarded_before(chans, from, result, stop) ==
    [w \in Workers |->
        IF w \in pipes /\ w # from /\ w < stop
        THEN Append(chans[w], result) ELSE chans[w]]

\* A result: filter duplicates, print, count against the limit, forward.
HubResult ==
    /\ hubpc = "recv"
    /\ ready # {}
    /\ toHub[receiver] # <<>>
    /\ IsResult(Head(toHub[receiver]))
    /\ LET result == Head(toHub[receiver])
           res_set == result[2]
           fresh == is_new(results, res_set)
           left == remaining_after(remaining, fresh)
       IN  /\ toHub' = [toHub EXCEPT ![receiver] = Tail(@)]
           /\ remaining' = left
           /\ IF ~fresh
              THEN /\ filtered' = filtered + 1
                   /\ UNCHANGED <<hubpc, exitcode, exitwhy, results, printed, origin,
                                  toWorker>>
              ELSE /\ results' = results \cup {res_set}
                   /\ printed' = print_result(printed, result, remaining)
                   /\ origin' = Append(origin, receiver)
                   /\ UNCHANGED filtered
                   /\ IF left = <<0>>
                      THEN HubExit(0, "limit") /\ UNCHANGED toWorker
                      ELSE IF broken(receiver) = {}
                      THEN /\ toWorker' = forwarded(toWorker, receiver, result)
                           /\ UNCHANGED <<hubpc, exitcode, exitwhy>>
                      ELSE /\ toWorker' = forwarded_before(toWorker, receiver,
                                               result, Min(broken(receiver)))
                           /\ HubExit(1, "BrokenPipe")
    /\ UNCHANGED <<limit, timeout, eof, pipes, ready, wpc, wkind, wmap>>
    /\ UNCHANGED <<evars, pvars>>

HubNext ==
    \/ HubStart
    \/ HubTest
    \/ HubSelect
    \/ HubNextReceiver
    \/ HubEOF
    \/ HubDone
    \/ HubComplete
    \/ HubResult

(* The workers. Each owns a Map and sends what its enumerator yields; the  *)
(* workers are daemon processes, gone when main has exited.                *)

\* The Map after the blocks of a sequence of peer results.
RECURSIVE inject(_, _)
inject(F, msgs) ==
    IF msgs = <<>> THEN F
    ELSE LET m == Head(msgs)
         IN  inject(IF m[1] = "S" THEN block_down(F, m[2])
                    ELSE IF m[1] = "U" THEN block_up(F, m[2])
                    ELSE F,
                    Tail(msgs))

\* What enumerate may yield for a seed s of the Map F: the result of grow
\* or shrink, or, on the known_max path of maximize = 'half', the seed
\* itself when it is a minimal model that is satisfiable or a maximal model
\* that is unsatisfiable.
yields(F, s) ==
    IF IsSat(s)
    THEN {<<"S", T>> : T \in grow(s) \cup (IF s \in Minimal(F) THEN {s} ELSE {})}
    ELSE {<<"U", T>> : T \in shrink(s, {})
                              \cup (IF s \in Maximal(F) THEN {s} ELSE {})}

\* One iteration of a worker: drain the peer results that have arrived,
\* draw a seed, send the result and block it.
WorkerEmit(w) ==
    /\ hubpc \notin {"off", "exit"}
    /\ wpc[w] = "run"
    /\ \E k \in 0 .. Len(toWorker[w]) :
          LET F == inject(wmap[w], SubSeq(toWorker[w], 1, k))
          IN  /\ F # {}
              /\ toWorker' = [toWorker EXCEPT
                                 ![w] = SubSeq(@, k + 1, Len(@))]
              /\ \E s \in F : \E r \in yields(F, s) :
                    /\ toHub' = [toHub EXCEPT ![w] = Append(@, r)]
                    /\ wmap' = [wmap EXCEPT ![w] = inject(F, <<r>>)]
    /\ UNCHANGED <<limit, timeout, eof, hubpc, exitcode, exitwhy, pipes, ready, results,
                   remaining, printed, origin, filtered, wpc, wkind>>
    /\ UNCHANGED <<evars, pvars>>

\* The worker's enumeration is over: 'complete' when its Map is exhausted
\* with every pending peer result injected.
WorkerComplete(w) ==
    /\ hubpc \notin {"off", "exit"}
    /\ wpc[w] = "run"
    /\ wkind[w] = "full"
    /\ inject(wmap[w], toWorker[w]) = {}
    /\ wmap' = [wmap EXCEPT ![w] = {}]
    /\ toWorker' = [toWorker EXCEPT ![w] = <<>>]
    /\ toHub' = [toHub EXCEPT ![w] = Append(@, Msg("complete"))]
    /\ wpc' = [wpc EXCEPT ![w] = "complete"]
    /\ UNCHANGED <<limit, timeout, eof, hubpc, exitcode, exitwhy, pipes, ready, results,
                   remaining, printed, origin, filtered, wkind>>
    /\ UNCHANGED <<evars, pvars>>

\* A worker that does not enumerate everything ends its work with 'done'
\* and waits for the hub's 'okay'.
WorkerDone(w) ==
    /\ hubpc \notin {"off", "exit"}
    /\ wpc[w] = "run"
    /\ wkind[w] = "partial"
    /\ toHub' = [toHub EXCEPT ![w] = Append(@, Msg("done"))]
    /\ wpc' = [wpc EXCEPT ![w] = "waitokay"]
    /\ UNCHANGED <<limit, timeout, eof, hubpc, exitcode, exitwhy, pipes, ready, results,
                   remaining, printed, origin, filtered, toWorker, wkind, wmap>>
    /\ UNCHANGED <<evars, pvars>>

\* The worker has the hub's 'okay' and its process exits.
WorkerOkay(w) ==
    /\ hubpc \notin {"off", "exit"}
    /\ wpc[w] = "waitokay"
    /\ \E i \in 1 .. Len(toWorker[w]) : toWorker[w][i] = Msg("okay")
    /\ toWorker' = [toWorker EXCEPT ![w] = <<>>]
    /\ wpc' = [wpc EXCEPT ![w] = "exited"]
    /\ UNCHANGED <<limit, timeout, eof, hubpc, exitcode, exitwhy, pipes, ready, results,
                   remaining, printed, origin, filtered, toHub, wkind, wmap>>
    /\ UNCHANGED <<evars, pvars>>

\* The worker process ends abnormally: an exception leaves run_enumerator,
\* with neither 'done' nor 'complete' sent. The hub's end of the channel
\* reports end of file only if no other process holds the worker's end
\* open, which depends on what the forked processes inherited.
WorkerCrash(w) ==
    /\ hubpc \notin {"off", "exit"}
    /\ wpc[w] = "run"
    /\ wpc' = [wpc EXCEPT ![w] = "crashed"]
    /\ \E closed \in BOOLEAN : eof' = [eof EXCEPT ![w] = closed]
    /\ UNCHANGED <<limit, timeout, hubpc, exitcode, exitwhy, pipes, ready,
                   results, remaining, printed, origin, filtered, toHub,
                   toWorker, wkind, wmap>>
    /\ UNCHANGED <<evars, pvars>>

WorkerNext(w) ==
    \/ WorkerEmit(w)
    \/ WorkerComplete(w)
    \/ WorkerDone(w)
    \/ WorkerOkay(w)

----------------------------------------------------------------------------
(* Z3SubsetSolver.grow and Z3SubsetSolver.shrink, called on any subset.    *)

Z3Init ==
    /\ PeerOff
    /\ n \in 0 .. MaxN
    /\ muses \in Instances(n)
    /\ config = [maximize |-> "none", aim |-> "MUSes", mssguided |-> FALSE,
                 use_singletons |-> FALSE, smus |-> FALSE]
    /\ unexplored = {}
    /\ queue = <<>>
    /\ got_top = FALSE
    /\ singleton_MCSes = {}
    /\ pc = "call"
    /\ seed \in SUBSET Idx(n)
    /\ known_max = FALSE
    /\ seed_is_sat = IsSat(seed)
    /\ out = <<>>
    /\ unsat_seen = FALSE
    /\ HubOff

\* grow(seed) of a satisfiable seed; the result is recorded in out.
Z3Grow ==
    /\ pc = "call"
    /\ seed_is_sat
    /\ \E MSS \in grow(seed) : out' = <<<<"S", MSS>>>>
    /\ pc' = "grown"
    /\ UNCHANGED <<n, muses, config, unsat_seen, unexplored, queue, got_top,
                   singleton_MCSes, seed, known_max, seed_is_sat>>
    /\ UNCHANGED <<hvars, pvars>>

\* shrink(seed) of an unsatisfiable seed; the result is recorded in out.
Z3Shrink ==
    /\ pc = "call"
    /\ ~seed_is_sat
    /\ \E MUS \in Z3shrink(seed) : out' = <<<<"U", MUS>>>>
    /\ pc' = "shrunk"
    /\ UNCHANGED <<n, muses, config, unsat_seen, unexplored, queue, got_top,
                   singleton_MCSes, seed, known_max, seed_is_sat>>
    /\ UNCHANGED <<hvars, pvars>>

Z3Next == Z3Grow \/ Z3Shrink

SpecZ3 == Z3Init /\ [][Z3Next]_vars

----------------------------------------------------------------------------
(* Specifications                                                          *)

Init == EnumInit /\ HubOff /\ PeerOff

Next == EnumNext

Spec == Init /\ [][Next]_vars

\* The results a peer may send: any satisfiable subset as an S, any
\* unsatisfiable one as a U.
PeerResults ==
    {<<"S", X>> : X \in {X \in SUBSET Idx(n) : IsSat(X)}}
        \cup {<<"U", X>> : X \in {X \in SUBSET Idx(n) : ~IsSat(X)}}

\* Between two emissions, before the next seed is requested, the worker
\* takes a peer result from its channel and blocks it in its own Map.
ReceivePeer ==
    /\ pc = "next"
    /\ Cardinality(injected) < MaxReceived
    /\ \E r \in PeerResults :
          /\ r[2] \notin injected
          /\ unexplored' = inject(unexplored, <<r>>)
          /\ injected' = injected \cup {r[2]}
    /\ UNCHANGED <<n, muses, config, queue, got_top, singleton_MCSes, pc, seed,
                   known_max, seed_is_sat, out, unsat_seen, from_queue>>
    /\ UNCHANGED hvars

\* An enumerator that runs as a worker next to its peers.
SpecPeer == Init /\ [][Next \/ ReceivePeer]_vars

\* The consumer of the generator keeps asking for the next result.
FairSpec == Spec /\ WF_vars(Next)

NextHub ==
    \/ HubNext
    \/ \E w \in Workers : WorkerNext(w)
    \/ \E w \in Workers : WorkerCrash(w)
    \/ \E signum \in {"SIGTERM", "SIGINT", "SIGALRM"} : HubSignal(signum)

SpecHub == HubInit /\ [][NextHub]_vars

\* The hub and every worker process keep running while they can.
FairSpecHub ==
    /\ SpecHub
    /\ WF_vars(HubNext)
    /\ \A w \in Workers : WF_vars(WorkerNext(w))

----------------------------------------------------------------------------
(* Properties of MarcoPolo.enumerate                                       *)

Emitted(tag) == {out[i][2] : i \in {j \in 1 .. Len(out) : out[j][1] = tag}}

MinCard(sets) ==
    CHOOSE k \in 0 .. MaxN + 1 :
        /\ \E S \in sets : Cardinality(S) = k
        /\ \A S \in sets : Cardinality(S) >= k

\* C1: every emitted ("U", X) is a MUS: X is unsatisfiable and X minus any
\* single element is satisfiable.
C1_EmittedUIsMUS ==
    \A i \in 1 .. Len(out) : out[i][1] = "U" => IsMUS(out[i][2])

\* C2: every emitted ("S", X) is an MSS: X is satisfiable and X plus any
\* single missing element is unsatisfiable.
C2_EmittedSIsMSS ==
    \A i \in 1 .. Len(out) : out[i][1] = "S" => IsMSS(out[i][2])

\* C3: when a run that is not in SMUS mode ends because the seeds are
\* exhausted, the emitted results are exactly all MUSes (tagged U) and all
\* MSSes (tagged S).
C3_CompleteOnExhaustion ==
    (pc = "done" /\ ~config.smus) =>
        (Emitted("U") = AllMUSes /\ Emitted("S") = AllMSSes)

\* C4: no subset is emitted twice within one run.
C4_NoSubsetEmittedTwice ==
    \A i \in 1 .. Len(out) : \A j \in 1 .. Len(out) :
        i # j => out[i][2] # out[j][2]

\* C4 witness: a run with MSS-guided seeding and half maximisation that
\* has emitted four results, one of them from an injected seed.
C4_Witness ==
    /\ Len(out) >= 4
    /\ config.mssguided
    /\ config.maximize = "half"
    /\ \E i \in 1 .. Len(out) - 1 : out[i][1] = "S" /\ out[i + 1][1] = "U"

\* C9: enumerate terminates: no step adds a subset to the Map's unexplored
\* set, every resumption after a yield removes at least one unexplored
\* subset, and the generator reaches its end (the end of the seed
\* sequence, or the exception of a run without constraints).
C9_Terminates ==
    /\ [][/\ unexplored' \subseteq unexplored
          /\ pc \in {"yieldS", "yieldU"} => unexplored' # unexplored]_vars
    /\ <>(pc \in {"done", "raised"})

\* C9 witness: a run that ended after at least three iterations.
C9_Witness == pc = "done" /\ Len(out) >= 3 /\ unexplored = {}

\* C10: in SMUS mode, when the enumeration completes, the smallest emitted
\* MUS has the minimum cardinality over all MUSes of the instance.
C10_SmallestMUSEmitted ==
    (pc = "done" /\ config.smus /\ AllMUSes # {}) =>
        /\ Emitted("U") # {}
        /\ MinCard(Emitted("U")) = MinCard(AllMUSes)

\* C10 witness: a completed SMUS run that emitted a larger MUS before a
\* smaller one.
C10_Witness ==
    /\ pc = "done"
    /\ config.smus
    /\ \E i \in 1 .. Len(out) : \E j \in 1 .. Len(out) :
          /\ i < j
          /\ out[i][1] = "U"
          /\ out[j][1] = "U"
          /\ Cardinality(out[j][2]) < Cardinality(out[i][2])

\* How many times the result (tag, X) was emitted.
EmittedCount(tag, X) ==
    Cardinality({i \in 1 .. Len(out) : out[i] = <<tag, X>>})

\* The constraints that are satisfiable on their own.
SatAlone == {i \in Idx(n) : IsSat({i})}

\* C11 as stated: on completion the union of the emitted MSSes is all of
\* [0, n) and each MUS has been emitted exactly once.
C11_UnionCoversAllAndMUSesOnce ==
    pc = "done" =>
        /\ UNION Emitted("S") = Idx(n)
        /\ \A U \in AllMUSes : EmittedCount("U", U) = 1

\* C11 amended: on completion of a run that is not in SMUS mode, the union
\* of the emitted MSSes is the set of the constraints that are satisfiable
\* on their own, and each MUS has been emitted exactly once.
C11_UnionCoversSatAloneAndMUSesOnce ==
    (pc = "done" /\ ~config.smus) =>
        /\ UNION Emitted("S") = SatAlone
        /\ \A U \in AllMUSes : EmittedCount("U", U) = 1

\* C11 witness: a completed run on three constraints with two MUSes, one
\* of them a single constraint that no MSS contains.
C11_Witness ==
    /\ pc = "done"
    /\ ~config.smus
    /\ n = 3
    /\ Cardinality(AllMUSes) = 2
    /\ SatAlone # Idx(n)
    /\ UNION Emitted("S") = SatAlone

\* The results of a run, without their order.
ResultSet == {out[i] : i \in 1 .. Len(out)}

\* The reference output of an instance, which the tests compare the sorted
\* output of every maximisation setting and bias against.
ReferenceResults ==
    {<<"U", X>> : X \in AllMUSes} \cup {<<"S", X>> : X \in AllMSSes}

\* C12: for a fixed constraint set the set of results of a completed run
\* is the same for every maximisation setting and both biases: every
\* completed run produces the reference results of the instance.
C12_SameResultsForEverySetting ==
    (pc = "done" /\ ~config.smus) => ResultSet = ReferenceResults

\* C13: at every point of enumerate, every index j of singleton_MCSes is
\* such that [0, n) minus {j} is an MSS, and the cache only grows.
C13_SingletonCacheCorrect ==
    /\ [](\A j \in singleton_MCSes : IsMSS(Idx(n) \ {j}))
    /\ [][singleton_MCSes \subseteq singleton_MCSes']_vars

\* C13 witness: two singleton MCSes are cached and a MUS was emitted after
\* an MSS of any size had been seen.
C13_Witness ==
    /\ config.use_singletons
    /\ Cardinality(singleton_MCSes) >= 2
    /\ \E i \in 1 .. Len(out) :
          out[i][1] = "S" /\ Cardinality(out[i][2]) < n - 1
    /\ \E i \in 1 .. Len(out) : out[i][1] = "U"
    /\ pc = "next"

\* C14: on an instance whose constraints are all satisfiable together
\* (n = 0 included), enumerate emits exactly one result, ("S", [0, n)),
\* and ends normally, in every maximize mode and for both aims.
C14_AllSatOneResult ==
    muses = {} =>
        /\ pc # "raised"
        /\ Len(out) <= 1
        /\ \A i \in 1 .. Len(out) : out[i] = <<"S", Idx(n)>>
        /\ pc = "done" => Len(out) = 1

\* Every single constraint is unsatisfiable on its own.
AllSingletonsUnsat == muses = {{i} : i \in Idx(n)}

\* C15: on an instance where every single constraint is unsatisfiable on
\* its own, a completed run has emitted exactly the n results ("U", {i}),
\* one per index, and exactly one ("S", {}), also with use_singletons and
\* mssguided.
C15_AllUnsatSingletons ==
    (AllSingletonsUnsat /\ ~config.smus /\ pc = "done") =>
        /\ \A i \in Idx(n) : EmittedCount("U", {i}) = 1
        /\ EmittedCount("S", {}) = 1
        /\ Len(out) = n + 1

\* C18: for a satisfiable seed, grow returns an MSS that contains the
\* seed; for an unsatisfiable seed, shrink returns a MUS contained in the
\* seed; an MSS is grown to itself and a MUS is shrunk to itself.
C18_GrowShrinkOnePass ==
    /\ pc = "grown" =>
           /\ IsMSS(out[1][2])
           /\ seed \subseteq out[1][2]
           /\ IsMSS(seed) => out[1][2] = seed
    /\ pc = "shrunk" =>
           /\ IsMUS(out[1][2])
           /\ out[1][2] \subseteq seed
           /\ IsMUS(seed) => out[1][2] = seed

\* C18 witness: on three constraints with two MUSes, grow added one
\* constraint to a seed and had to leave another one out.
C18_Witness ==
    /\ pc = "grown"
    /\ n = 3
    /\ Cardinality(muses) = 2
    /\ Cardinality(out[1][2]) = Cardinality(seed) + 1
    /\ Cardinality(out[1][2]) < n - 1

\* C19: whenever enumerate reaches the emission step with known_max true,
\* the seed is already extremal: an MSS if seed_is_sat, a MUS otherwise.
C19_KnownMaxIsExtremal ==
    (pc = "emit" /\ known_max) =>
        IF seed_is_sat THEN IsMSS(seed) ELSE IsMUS(seed)

\* S is covered by no emitted result: it contains no emitted MUS and is
\* contained in no emitted MSS.
NotCovered(S) ==
    \A i \in 1 .. Len(out) :
        /\ out[i][1] = "U" => ~(out[i][2] \subseteq S)
        /\ out[i][1] = "S" => ~(S \subseteq out[i][2])

\* A step that obtains a seed from the Map: from next_seed or from the
\* queue filled by find_above, or from maximize_seed.
ObtainsSeed ==
    \/ pc = "next" /\ pc' = "maximize"
    \/ pc = "maximize" /\ config.maximize = "always" /\ pc' = "checkA"
    \/ pc = "half" /\ pc' \in {"checkB", "emit"}

\* C20: once a result has been emitted and its block applied, every seed
\* later obtained from next_seed, find_above or maximize_seed contains no
\* emitted MUS and is contained in no emitted MSS.
C20_NoCoveredSeed ==
    /\ [][ObtainsSeed => NotCovered(seed')]_vars
    /\ [](pc = "next" => \A k \in 1 .. Len(queue) : NotCovered(queue[k][1]))

\* C20 witness: after an MSS and a MUS were emitted and blocked, a seed
\* found by find_above was taken from the queue and maximised.
C20_Witness ==
    /\ pc = "checkA"
    /\ config.mssguided
    /\ config.maximize = "always"
    /\ Len(out) >= 3
    /\ out[Len(out)][1] = "S"
    /\ \E i \in 1 .. Len(out) : out[i][1] = "U"
    /\ queue = <<>>
    /\ ~known_max
    /\ NotCovered(seed)

\* The block of the result r has been applied to the Map.
Blocked(r) ==
    \A S \in unexplored :
        /\ r[1] = "S" => ~(S \subseteq r[2])
        /\ r[1] = "U" => ~(r[2] \subseteq S)

\* The generator is suspended at a yield.
AtYield == pc \in {"yieldS", "yieldU"}

\* C21: the block of an emission is applied after the emission was handed
\* to the consumer, in the step that resumes the generator, hence before
\* any later Map query and before the block of the next emission; while
\* the generator is not resumed the block is not applied.
C21_BlockAfterYieldBeforeNextQuery ==
    /\ [](\A i \in 1 .. Len(out) :
             (i < Len(out) \/ ~AtYield) => Blocked(out[i]))
    /\ [](AtYield => ~Blocked(out[Len(out)]))
    /\ [][out' # out => (unexplored' = unexplored /\ AtYield')]_vars
    /\ [][unexplored' # unexplored =>
             (AtYield /\ pc' = "next" /\ out' = out /\ Blocked(out[Len(out)])')]_vars
    /\ [][AtYield => (pc' = "next" /\ Blocked(out[Len(out)])')]_vars

\* C21 witness: the generator is suspended at its third emission, whose
\* block is still to come, with the first two blocked.
C21_Witness ==
    /\ AtYield
    /\ Len(out) = 3
    /\ ~Blocked(out[3])
    /\ Blocked(out[1])
    /\ Blocked(out[2])
    /\ out[2][1] # out[3][1]

\* C22: got_top is true if and only if some check_subset call of the run
\* has returned UNSAT, also when that was the first check of an iteration
\* in 'half' mode whose second check returns SAT; it is never reset. The
\* equivalence is stated between two iterations, when the iteration that
\* made the call is over.
C22_GotTopIffUnsatSeen ==
    /\ [](pc \in {"next", "done"} => (got_top <=> unsat_seen))
    /\ [][got_top => got_top']_vars

\* C23: the singleton-MCS cache passed as hard elements to shrink is a pure
\* optimisation: in every reachable state and for every unsatisfiable
\* seed, shrink with the cache as hard elements returns a MUS, and returns
\* exactly what shrink without hard elements returns, so that a run with
\* use_singletons takes the steps, and emits the results, of a run without.
C23_SingletonsPureOptimisation ==
    \A S \in SUBSET Idx(n) :
        ~IsSat(S) =>
            /\ \A MUS \in shrink(S, singleton_MCSes) : IsMUS(MUS)
            /\ shrink(S, singleton_MCSes) = shrink(S, {})

\* C23 witness: a MUS of two constraints came out of shrink while one of
\* its constraints was in the cache.
C23_Witness ==
    /\ pc = "yieldU"
    /\ ~known_max
    /\ config.use_singletons
    /\ Cardinality(seed) >= 2
    /\ singleton_MCSes \cap seed # {}

\* The last result emitted.
LastOut == out[Len(out)]

\* The seed of the current iteration was put in the queue by add_seed after
\* the last emission: since then neither the Map nor got_top has changed.
FromQueue ==
    /\ pc \in {"maximize", "checkA", "half", "checkB", "emit"}
    /\ config.mssguided
    /\ out # <<>>
    /\ LastOut[1] = "S"
    /\ (Cardinality(LastOut[2]) < n - 1 \/ ~got_top)
    /\ find_above(unexplored, LastOut[2]) # {}

\* C24: every seed put in the queue by add_seed is a strict superset of
\* the MSS just emitted, is unsatisfiable, carries known_max = false, is
\* the only element of the queue, is returned by the very next pull,
\* before any next_seed call, is still unexplored when consumed, and leads
\* to a ("U", ...) emission in that iteration.
C24_QueuedSeed ==
    /\ [](queue # <<>> =>
             /\ pc = "next"
             /\ Len(queue) = 1
             /\ queue[1][2] = FALSE
             /\ LastOut[1] = "S"
             /\ LastOut[2] \subseteq queue[1][1]
             /\ LastOut[2] # queue[1][1]
             /\ queue[1][1] \in unexplored
             /\ ~IsSat(queue[1][1]))
    /\ [][queue # <<>> =>
             (seed' = queue[1][1] /\ known_max' = FALSE /\ queue' = <<>>
              /\ pc' = "maximize" /\ FromQueue')]_vars
    /\ []((pc = "emit" /\ FromQueue) => ~seed_is_sat)

\* C25: whenever find_above(MSS) is skipped, the MSS has n - 1 elements
\* and got_top is true, and the full set is already blocked in the Map,
\* so that find_above(MSS) would have returned none; and the test of the
\* code agrees with not (|MSS| = n - 1 and got_top) for every emitted MSS.
C25_ShortcutLosesNoSeed ==
    pc = "yieldS" =>
        /\ ~check_parents(seed) =>
               /\ Cardinality(seed) = n - 1
               /\ got_top
               /\ Idx(n) \notin unexplored
               /\ find_above(blocks_after_S(unexplored, seed), seed) = {}
        /\ check_parents(seed) <=> ~(Cardinality(seed) = n - 1 /\ got_top)

\* C25 witness: with MSS-guided seeding, an MSS of two of three
\* constraints was emitted after a MUS, and no seed was queued for it.
C25_Witness ==
    /\ pc = "next"
    /\ config.mssguided
    /\ n = 3
    /\ got_top
    /\ LastOut[1] = "S"
    /\ Cardinality(LastOut[2]) = n - 1
    /\ queue = <<>>

\* The positions of the MUSes in the output.
UPositions == {i \in 1 .. Len(out) : out[i][1] = "U"}

\* C26: in SMUS mode, once a MUS of size k has been emitted and blocked,
\* every subset left in the Map and every seed drawn from it (by next_seed,
\* find_above or maximize_seed) has at most k - 1 elements, and each
\* emitted MUS is strictly smaller than the ones emitted before it.
C26_SmusStrictlySmaller ==
    config.smus =>
        /\ \A i \in UPositions : \A j \in UPositions :
               i < j => Cardinality(out[j][2]) < Cardinality(out[i][2])
        /\ \A i \in UPositions :
               (i < Len(out) \/ ~AtYield) =>
                   /\ \A S \in unexplored :
                          Cardinality(S) <= Cardinality(out[i][2]) - 1
                   /\ \A k \in 1 .. Len(queue) :
                          Cardinality(queue[k][1]) <= Cardinality(out[i][2]) - 1
                   /\ pc \in {"maximize", "checkA"} =>
                          Cardinality(seed) <= Cardinality(out[i][2]) - 1

\* C26 witness: in SMUS mode a MUS of two constraints was emitted and
\* blocked, and a seed of one constraint drawn afterwards has just been
\* emitted as a smaller MUS.
C26_Witness ==
    /\ config.smus
    /\ pc = "yieldU"
    /\ Cardinality(UPositions) = 2
    /\ Cardinality(seed) = 1
    /\ \E i \in UPositions : Cardinality(out[i][2]) = 2

----------------------------------------------------------------------------
(* Properties of the hub                                                   *)

Printed(tag) ==
    {printed[i][2] : i \in {j \in 1 .. Len(printed) : printed[j][1] = tag}}

\* A result covers the subsets its block removes from a Map.
Covers(r, S) ==
    \/ r[1] = "S" /\ S \subseteq r[2]
    \/ r[1] = "U" /\ r[2] \subseteq S

\* The results a worker's blocks may come from: the printed ones, and its
\* own that are still on the way to the hub.
Accounted(w) ==
    {printed[i] : i \in 1 .. Len(printed)}
        \cup {toHub[w][i] : i \in {j \in 1 .. Len(toHub[w]) :
                                      IsResult(toHub[w][j])}}

\* C5: each distinct subset is delivered to the user at most once.
C5_DeliveredAtMostOnce ==
    \A i \in 1 .. Len(printed) : \A j \in 1 .. Len(printed) :
        i # j => printed[i][2] # printed[j][2]

\* C5 witness: two results were delivered and a duplicate, reported by a
\* second worker, was dropped.
C5_Witness == filtered >= 1 /\ Len(printed) >= 2

\* C6: when the hub exits on 'complete' with no limit set, every MUS and
\* every MSS has been delivered; at every moment, each subset blocked in a
\* worker's Map is covered by a printed result or by one of the worker's
\* own results still on its way to the hub.
C6_CompleteMeansAllDelivered ==
    /\ (hubpc = "exit" /\ exitwhy = "complete" /\ limit = None) =>
           (AllMUSes \subseteq Printed("U") /\ AllMSSes \subseteq Printed("S"))
    /\ limit = None =>
           \A w \in Workers : \A S \in (SUBSET Idx(n)) \ wmap[w] :
               \E r \in Accounted(w) : Covers(r, S)

\* C6 witness: the hub exited on 'complete' after printing results that
\* came from two different workers, none of them reported twice.
C6_Witness ==
    /\ hubpc = "exit"
    /\ exitwhy = "complete"
    /\ limit = None
    /\ filtered = 0
    /\ \A w \in Workers : toHub[w] = <<>>
    /\ \E i \in 1 .. Len(origin) : \E j \in 1 .. Len(origin) :
          origin[i] # origin[j]

\* C7: with limit 0 the hub exits at once and delivers nothing; with a
\* limit L >= 1 the counter is L minus the number of delivered results
\* (duplicates do not count), never more than L results are delivered, and
\* the hub has exited on the limit exactly when L results are delivered.
C7_OutputLimit ==
    /\ limit = <<0>> => (printed = <<>> /\ hubpc \in {"start", "exit"})
    /\ \A L \in 1 .. MaxLimit :
           limit = <<L>> =>
               /\ Len(printed) <= L
               /\ hubpc \notin {"start", "exit"} =>
                      remaining = <<L - Len(printed)>>
               /\ Len(printed) = L <=> (hubpc = "exit" /\ exitwhy = "limit")
               /\ (hubpc = "exit" /\ exitwhy = "limit") => exitcode = 0

\* C7 witness: the hub exited on a limit of two after it had also dropped
\* a duplicate.
C7_Witness ==
    /\ limit = <<2>>
    /\ hubpc = "exit"
    /\ exitwhy = "limit"
    /\ filtered >= 1

\* The workers that ended abnormally.
Crashed == {w \in Workers : wpc[w] = "crashed"}

\* C16: when one worker has ended abnormally, the hub keeps running and
\* ends only by one of its normal conditions: a 'complete', the limit, or
\* all workers gone.
C16_CrashIsolated ==
    (Cardinality(Crashed) = 1 /\ hubpc = "exit") =>
        exitwhy \in {"complete", "limit", "alldone"} \cup Signals

\* C17: the hub ends with status 0 when a worker reports 'complete', when
\* the limit is reached and when all workers are gone, and with status 128
\* when SIGINT, SIGTERM or the timeout alarm is delivered, which can happen
\* at every point of the run.
C17_ExitCodes ==
    /\ hubpc = "exit" =>
           /\ exitwhy \in {"complete", "limit", "alldone"} => exitcode = 0
           /\ exitwhy \in Signals => exitcode = 128
    /\ hubpc \notin {"off", "exit"} =>
           /\ ENABLED HubSignal("SIGINT")
           /\ ENABLED HubSignal("SIGTERM")
           /\ timeout => ENABLED HubSignal("SIGALRM")

\* C17 witness: the timeout alarm ended the hub while it was serving the
\* channels, after a result had been printed.
C17_Witness ==
    /\ hubpc = "exit"
    /\ exitwhy = "SIGALRM"
    /\ exitcode = 128
    /\ ready # {}
    /\ Len(printed) >= 1

\* Every worker has sent 'done'.
AllDoneSent == \A w \in Workers : wpc[w] \in {"waitokay", "exited"}

\* C8: once every worker has sent 'done', the hub eventually leaves its
\* loop and exits.
C8_AllDoneHubExits == AllDoneSent ~> (hubpc = "exit")

\* The hub takes a result from the channel of the receiver in this step.
TakesResult ==
    /\ hubpc = "recv"
    /\ ready # {}
    /\ toHub[receiver] # <<>>
    /\ IsResult(Head(toHub[receiver]))
    /\ toHub'[receiver] = Tail(toHub[receiver])

\* What the hub sends on the channel of worker w in this step.
Sent(w) ==
    IF Len(toWorker'[w]) > Len(toWorker[w])
    THEN SubSeq(toWorker'[w], Len(toWorker[w]) + 1, Len(toWorker'[w]))
    ELSE <<>>

\* C28: a result the hub accepts as new is sent exactly once on every
\* channel still in pipes other than the sender's, and not on the
\* sender's; a duplicate is sent on no channel; the hub removes a channel
\* from pipes in the step that answers its 'done' with 'okay', never puts it
\* back and sends nothing further on it.
C28_Forwarding ==
    [][/\ TakesResult =>
             LET result == Head(toHub[receiver])
                 new == result[2] \notin results
             IN  \A w \in Workers :
                     Sent(w) = IF new /\ w \in pipes /\ w # receiver
                               THEN <<result>> ELSE <<>>
       /\ \A w \in Workers :
             /\ Sent(w) = <<Msg("okay")>> => w \in pipes /\ w \notin pipes'
             /\ w \notin pipes => w \notin pipes' /\ Sent(w) = <<>>]_vars

====
